---------------------------- MODULE Spec2Model ----------------------------
(***************************************************************************)
(* DEX-watcher: three venue monitors (Raydium, Orca, Meteora), each run by *)
(* a supervised runner task, publish PriceUpdate events to one tokio       *)
(* broadcast channel; one display task receives them; main waits in a      *)
(* select! for Ctrl-C or for any task to end.                              *)
(*                                                                         *)
(* f64 values are modelled as exact rationals [kind, num, den] with the    *)
(* IEEE-754 outcomes of a division by zero (NaN, +Inf, -Inf) kept apart;   *)
(* rounding is not modelled.  PriceUpdate.timestamp (wall clock) is not    *)
(* modelled.                                                               *)
(***************************************************************************)
EXTENDS Integers, Sequences, FiniteSets, TLC

\* ------------------------------------------------------------------ bounds

\* Ticks (completed fetch attempts) each monitor makes in a checked run.
MaxTicks == 2

\* The capacity handed to broadcast::channel.  The program passes 1000; the
\* model runs the same channel at this capacity.
Capacity == 3

\* Returns of start_monitoring per venue in the runner harness (SpecRunner).
MaxReturns == 2

\* Worker threads of the runtime.  #[tokio::main] builds the multi-thread
\* runtime with one worker per core; the model runs it on the least machine.
WorkerThreads == 1

\* ------------------------------------------------------------- f64 values

Fin(n, d) == [kind |-> "fin", num |-> n, den |-> d]
NaN == [kind |-> "nan", num |-> 0, den |-> 0]
PosInf == [kind |-> "inf", num |-> 1, den |-> 0]
NegInf == [kind |-> "inf", num |-> -1, den |-> 0]

Abs(x) == IF x < 0 THEN -x ELSE x

RECURSIVE Gcd(_, _)
Gcd(a, b) == IF b = 0 THEN a ELSE Gcd(b, a % b)

\* The rational n/d in lowest terms with a positive denominator (d # 0).
Rat(n, d) ==
    LET g == Gcd(Abs(n), Abs(d))
        s == IF d < 0 THEN -1 ELSE 1
    IN  Fin((s * n) \div g, (s * d) \div g)

Zero == Fin(0, 1)
Hundred == Fin(100, 1)

IsFin(x) == x.kind = "fin"

\* a - b
FSub(a, b) ==
    IF IsFin(a) /\ IsFin(b)
    THEN Rat(a.num * b.den - b.num * a.den, a.den * b.den)
    ELSE NaN

\* a + b
FAdd(a, b) ==
    IF IsFin(a) /\ IsFin(b)
    THEN Rat(a.num * b.den + b.num * a.den, a.den * b.den)
    ELSE NaN

\* a * b
FMul(a, b) ==
    IF IsFin(a) /\ IsFin(b) THEN Rat(a.num * b.num, a.den * b.den)
    ELSE IF a.kind = "nan" \/ b.kind = "nan" THEN NaN
    ELSE IF a.num = 0 \/ b.num = 0 THEN NaN
    ELSE IF (a.num > 0) = (b.num > 0) THEN PosInf ELSE NegInf

\* a / b; the divisors of this program are never negative zero
FDiv(a, b) ==
    IF IsFin(a) /\ IsFin(b)
    THEN IF b.num # 0 THEN Rat(a.num * b.den, a.den * b.num)
         ELSE IF a.num = 0 THEN NaN
         ELSE IF a.num > 0 THEN PosInf ELSE NegInf
    ELSE NaN

RECURSIVE IntPow(_, _)
IntPow(b, k) == IF k = 0 THEN 1 ELSE b * IntPow(b, k - 1)

\* f64::powi on a finite value: a negative exponent gives the reciprocal
FPowi(x, k) ==
    IF k >= 0 THEN Rat(IntPow(x.num, k), IntPow(x.den, k))
    ELSE FDiv(Fin(1, 1), Rat(IntPow(x.num, -k), IntPow(x.den, -k)))

\* Option<f64>
None == << >>
Some(x) == << x >>

\* ------------------------------------------------------- price derivation

\* A reserve ratio without the zero-reserve guard.
calculate_price_unguarded(base_reserve, quote_reserve) ==
    LET sol_amount == Rat(base_reserve, 1000000000)
        usdc_amount == Rat(quote_reserve, 1000000)
    IN  FDiv(usdc_amount, sol_amount)

\* RaydiumMonitor::calculate_price
calculate_price(base_reserve, quote_reserve) ==
    IF base_reserve = 0 THEN Zero
    ELSE LET sol_amount == Rat(base_reserve, 1000000000)
             usdc_amount == Rat(quote_reserve, 1000000)
         IN  FDiv(usdc_amount, sol_amount)

\* A u128 sqrt_price is written m * 2^e; q64 is 1 * 2^64.
Dyadic(m, e) == [m |-> m, e |-> e]
Q64Exp == 64

\* whirlpool_price_from_sqrt_price
whirlpool_price_from_sqrt_price(sqrt_price, token_a_decimals, token_b_decimals) ==
    LET ratio == IF sqrt_price.e >= Q64Exp
                 THEN Rat(sqrt_price.m * IntPow(2, sqrt_price.e - Q64Exp), 1)
                 ELSE Rat(sqrt_price.m, IntPow(2, Q64Exp - sqrt_price.e))
        price_raw == FPowi(ratio, 2)
        decimal_adjustment == FPowi(Fin(10, 1), token_b_decimals - token_a_decimals)
    IN  FMul(price_raw, decimal_adjustment)

\* The decimals fetch_whirlpool_data passes for token A and token B.
OrcaTokenADecimals == 6
OrcaTokenBDecimals == 9

\* MeteoraMonitor::calculate_price_from_active_bin
calculate_price_from_active_bin(active_id, bin_step) ==
    LET bin_step_decimal == Rat(bin_step, 10000)
        base_multiplier == FAdd(Fin(1, 1), bin_step_decimal)
        active_bin_price == FPowi(base_multiplier, active_id)
    IN  FMul(active_bin_price, Fin(1000, 1))

\* ------------------------------------------------------------ environment

Venues == {"Raydium", "Orca", "Meteora"}

\* The receiver main creates with the channel and moves into the display
\* task, and a second receiver that only the two-subscriber harness
\* (SpecTwoSubscribers) subscribes.
Consumers == {"display", "second"}

\* What a successful fetch can bring back: vault balances for every venue,
\* plus the venue's price field (Orca: sqrt_price, Meteora: active bin).
RaydiumInputs ==
    { [base_reserve |-> 0,          quote_reserve |-> 100000000],
      [base_reserve |-> 1000000000, quote_reserve |-> 100000000],
      [base_reserve |-> 1000000000, quote_reserve |-> 110000000] }

OrcaInputs ==
    { [sqrt_price |-> Dyadic(1, 62), base_reserve |-> 5, quote_reserve |-> 7],
      [sqrt_price |-> Dyadic(3, 61), base_reserve |-> 5, quote_reserve |-> 7] }

MeteoraInputs ==
    { [active_id |-> -1, bin_step |-> 10, base_reserve |-> 2, quote_reserve |-> 3] }

Inputs(v) ==
    CASE v = "Raydium" -> RaydiumInputs
      [] v = "Orca"    -> OrcaInputs
      [] v = "Meteora" -> MeteoraInputs

\* The steps of a fetch that can fail (the `?` and Err exits of
\* fetch_pool_data, fetch_whirlpool_data and fetch_dlmm_data).
FailureSteps == {"account_fetch", "decode", "balance_lookup"}

\* ------------------------------------------------------------------ state

VARIABLES
    pc,           \* per venue task: "start" | "fetch" | "wait" | "cooldown"
    price_cache,  \* per venue monitor: Option<f64>
    ticks,        \* per venue: fetch attempts completed
    emitted,      \* per venue: the PriceUpdates handed to tx.send, with the result
    log,          \* per venue: lines printed (fetch errors, "No receivers ...")
    runs,         \* per venue runner: invocations, Ok and Err returns, cooldowns slept
    buffer,       \* the channel: values it retains, oldest first
    tail,         \* the channel: number of values sent so far (tail.pos)
    rx,           \* per consumer: [alive, next, pc], pc "recv" | "ended"
    received,     \* per consumer: the PriceUpdates its loop printed
    main          \* "select" | "ctrl_c" | "task_ended"

vars == << pc, price_cache, ticks, emitted, log, runs, buffer, tail, rx, received, main >>

monitorVars == << pc, price_cache, ticks, emitted, log, runs >>
hubVars == << buffer, tail, rx, received >>

\* ---------------------------------------------------------------- monitor

\* A constructor that starts the cache at Some(0.0).
MonitorNewZeroed(v) == Some(Zero)

\* RaydiumMonitor::new, OrcaMonitor::new, MeteoraMonitor::new
MonitorNew(v) == None

\* A change computed relative to the current price.
change_percent_of_current(cache, current_price) ==
    IF cache # None
    THEN FMul(FDiv(FSub(current_price, cache[1]), current_price), Hundred)
    ELSE Zero

\* calculate_change_percent, and the same expression inline in Orca and Meteora
calculate_change_percent(cache, current_price) ==
    IF cache # None
    THEN FMul(FDiv(FSub(current_price, cache[1]), cache[1]), Hundred)
    ELSE Zero

\* A derivation that hands Orca's decimals over the other way round.
DerivePriceDecimalsSwapped(v, in) ==
    CASE v = "Raydium" -> calculate_price(in.base_reserve, in.quote_reserve)
      [] v = "Orca"    -> whirlpool_price_from_sqrt_price(
                              in.sqrt_price, OrcaTokenBDecimals, OrcaTokenADecimals)
      [] v = "Meteora" -> calculate_price_from_active_bin(in.active_id, in.bin_step)

\* The price a venue derives from what it fetched.
DerivePrice(v, in) ==
    CASE v = "Raydium" -> calculate_price(in.base_reserve, in.quote_reserve)
      [] v = "Orca"    -> whirlpool_price_from_sqrt_price(
                              in.sqrt_price, OrcaTokenADecimals, OrcaTokenBDecimals)
      [] v = "Meteora" -> calculate_price_from_active_bin(in.active_id, in.bin_step)

Source(v) == v

PriceUpdate(v, in, cache) ==
    LET current_price == DerivePrice(v, in)
    IN  [ symbol         |-> "SOL/USDC",
          price          |-> current_price,
          change_percent |-> calculate_change_percent(cache, current_price),
          source         |-> Source(v),
          base_reserve   |-> in.base_reserve,
          quote_reserve  |-> in.quote_reserve ]

\* PriceUpdate tabulated over the inputs and the prices a cache can hold
\* after them, so that each update is computed once; any other cache value
\* is computed directly.
KnownCaches ==
    [v \in Venues |-> {None} \cup { Some(DerivePrice(v, in)) : in \in Inputs(v) }]

PriceUpdateTable ==
    [v \in Venues |->
        [in \in Inputs(v) |->
            [cache \in KnownCaches[v] |-> PriceUpdate(v, in, cache)]]]

PriceUpdateOf(v, in, cache) ==
    IF cache \in KnownCaches[v]
    THEN PriceUpdateTable[v][in][cache]
    ELSE PriceUpdate(v, in, cache)

\* -------------------------------------------------------------------- hub

\* broadcast::channel rounds the capacity up to a power of two.
RECURSIVE NextPowerOfTwo(_, _)
NextPowerOfTwo(n, p) == IF p >= n THEN p ELSE NextPowerOfTwo(n, 2 * p)

Slots == NextPowerOfTwo(Capacity, 1)

Alive(r) == { c \in Consumers : r[c].alive }

Min(S) == CHOOSE x \in S : \A y \in S : x <= y

\* Position of the oldest value the channel still retains: a slot is
\* overwritten after Slots sends, and its value is dropped once every
\* receiver has read it.
OldestPos(r, t) ==
    IF Alive(r) = {} THEN t
    ELSE LET low == Min({ r[c].next : c \in Alive(r) })
         IN  IF t - Slots > low THEN t - Slots ELSE low

Last(s) == s[Len(s)]

RECURSIVE DropFirst(_, _)
DropFirst(s, n) == IF n <= 0 \/ s = << >> THEN s ELSE DropFirst(Tail(s), n - 1)

\* Sender::send: Err when there is no receiver, else the value is stored
\* (over the oldest slot when all are in use) and the call returns Ok.
\* A send that errs whenever all the slots are in use as well.
SendResultFullIsError(buf, r) ==
    IF Alive(r) = {} \/ Len(buf) >= Slots THEN "Err" ELSE "Ok"

SendResult(buf, r) == IF Alive(r) = {} THEN "Err" ELSE "Ok"

\* A channel that keeps every value until it is read.
BufferAfterSendUnbounded(buf, r, t, update) ==
    IF Alive(r) = {} THEN buf ELSE Append(buf, update)

BufferAfterSend(buf, r, t, update) ==
    IF SendResult(buf, r) = "Err" THEN buf
    ELSE LET b == Append(buf, update)
         IN  DropFirst(b, Len(b) - ((t + 1) - OldestPos(r, t + 1)))

TailAfterSend(buf, r, t) == IF SendResult(buf, r) = "Err" THEN t ELSE t + 1

\* Whether a failed send is reported on stdout: Orca and Meteora print
\* "No receivers for ... price updates", Raydium discards the result.
LogsNoReceivers(v) == v \in {"Orca", "Meteora"}

\* --------------------------------------------------------------- executor

\* A client whose calls keep the worker thread until the response is in.
FetchModeBlocking(v) == IF v = "Raydium" THEN "await" ELSE "block"

\* How a monitor's fetch waits for the RPC response.  Raydium uses the
\* nonblocking RpcClient and awaits: the task is suspended.  Orca and Meteora
\* call the blocking RpcClient from their async fn; that client runs each
\* request under tokio::task::block_in_place, which passes the worker's core
\* (and with it the other tasks) to another thread before it blocks.
FetchMode(v) == IF v = "Raydium" THEN "await" ELSE "block_in_place"

\* The monitor is inside a fetch that keeps a worker of the runtime.
HoldsWorker(v) == pc[v] = "fetch" /\ FetchMode(v) = "block"

\* A spawned task can be polled when a worker is left for it: one it holds
\* itself, or one no other task's fetch is holding.
Schedulable(t) ==
    Cardinality({ v \in Venues \ {t} : HoldsWorker(v) }) < WorkerThreads

\* ---------------------------------------------------------------- actions

Running == main = "select"

\* The state once main has created the channel and spawned its tasks; subs
\* are the receivers subscribed at that point.
InitWith(subs) ==
    /\ pc = [v \in Venues |-> "start"]
    /\ price_cache = [v \in Venues |-> MonitorNew(v)]
    /\ ticks = [v \in Venues |-> 0]
    /\ emitted = [v \in Venues |-> << >>]
    /\ log = [v \in Venues |-> [fetch_errors |-> 0, no_receivers |-> 0]]
    /\ runs = [v \in Venues |-> [invoked |-> 0, ok |-> 0, err |-> 0, cooldowns |-> 0]]
    /\ buffer = << >>
    /\ tail = 0
    /\ rx = [c \in Consumers |->
                [alive |-> (c \in subs), next |-> 0,
                 pc |-> IF c \in subs THEN "recv" ELSE "ended"]]
    /\ received = [c \in Consumers |-> << >>]
    /\ main = "select"

\* main subscribes one receiver, rx, which the display task owns.
Init == InitWith({"display"})

\* The runner calls start_monitoring.  Raydium goes straight to its first
\* fetch; Orca and Meteora create an interval and await its first tick.
StartPc(v) == IF v = "Raydium" THEN "fetch" ELSE "wait"

Invoke(v) ==
    /\ Running /\ Schedulable(v)
    /\ pc[v] = "start"
    /\ pc' = [pc EXCEPT ![v] = StartPc(v)]
    /\ runs' = [runs EXCEPT ![v].invoked = @ + 1]
    /\ UNCHANGED << price_cache, ticks, emitted, log, hubVars, main >>

\* The interval tick (Orca, Meteora) or the 2 s sleep (Raydium) is over.
IntervalElapsed(v) ==
    /\ Running /\ Schedulable(v)
    /\ pc[v] = "wait"
    /\ ticks[v] < MaxTicks
    /\ pc' = [pc EXCEPT ![v] = "fetch"]
    /\ UNCHANGED << price_cache, ticks, emitted, log, runs, hubVars, main >>

\* tx.send(update), the report of a failed send, and the cache update.
Publish(v, update) ==
    /\ emitted' = [emitted EXCEPT
                     ![v] = Append(@, [update |-> update,
                                       result |-> SendResult(buffer, rx)])]
    /\ buffer' = BufferAfterSend(buffer, rx, tail, update)
    /\ tail' = TailAfterSend(buffer, rx, tail)
    /\ log' = IF SendResult(buffer, rx) = "Err" /\ LogsNoReceivers(v)
              THEN [log EXCEPT ![v].no_receivers = @ + 1]
              ELSE log
    /\ price_cache' = [price_cache EXCEPT ![v] = Some(update.price)]

\* The tick of a monitor whose fetch has come back with `update` to publish.
Tick(v, update) ==
    /\ Running /\ Schedulable(v)
    /\ pc[v] = "fetch"
    /\ ticks[v] < MaxTicks
    /\ Publish(v, update)
    /\ ticks' = [ticks EXCEPT ![v] = @ + 1]
    /\ pc' = [pc EXCEPT ![v] = "wait"]
    /\ UNCHANGED << runs, rx, received, main >>

\* The Ok arm of the tick: derive, build the update, send, cache.
FetchOk(v, in) == Tick(v, PriceUpdateOf(v, in, price_cache[v]))

\* An Err arm that also forgets the cached price.
FetchErrClearsCache(v, step) ==
    /\ Running /\ Schedulable(v)
    /\ pc[v] = "fetch"
    /\ ticks[v] < MaxTicks
    /\ log' = [log EXCEPT ![v].fetch_errors = @ + 1]
    /\ ticks' = [ticks EXCEPT ![v] = @ + 1]
    /\ pc' = [pc EXCEPT ![v] = "wait"]
    /\ price_cache' = [price_cache EXCEPT ![v] = None]
    /\ UNCHANGED << emitted, runs, hubVars, main >>

\* An Err arm that leaves the tick loop for good.
FetchErrEndsMonitor(v, step) ==
    /\ Running /\ Schedulable(v)
    /\ pc[v] = "fetch"
    /\ ticks[v] < MaxTicks
    /\ log' = [log EXCEPT ![v].fetch_errors = @ + 1]
    /\ ticks' = [ticks EXCEPT ![v] = @ + 1]
    /\ pc' = [pc EXCEPT ![v] = "ended"]
    /\ UNCHANGED << price_cache, emitted, runs, hubVars, main >>

\* An Err arm that propagates the error out of start_monitoring.
FetchErrReturns(v, step) ==
    /\ Running /\ Schedulable(v)
    /\ pc[v] = "fetch"
    /\ ticks[v] < MaxTicks
    /\ log' = [log EXCEPT ![v].fetch_errors = @ + 1]
    /\ ticks' = [ticks EXCEPT ![v] = @ + 1]
    /\ pc' = [pc EXCEPT ![v] = "cooldown"]
    /\ runs' = [runs EXCEPT ![v].err = @ + 1]
    /\ UNCHANGED << price_cache, emitted, hubVars, main >>

\* The Err arm of the tick: the error is printed, nothing else happens.
FetchErr(v, step) ==
    /\ Running /\ Schedulable(v)
    /\ pc[v] = "fetch"
    /\ ticks[v] < MaxTicks
    /\ log' = [log EXCEPT ![v].fetch_errors = @ + 1]
    /\ ticks' = [ticks EXCEPT ![v] = @ + 1]
    /\ pc' = [pc EXCEPT ![v] = "wait"]
    /\ UNCHANGED << price_cache, emitted, runs, hubVars, main >>

\* A receive from a queue whose values go to one consumer only.
RecvShared(c) ==
    /\ Running /\ Schedulable(c)
    /\ rx[c].alive /\ rx[c].pc = "recv"
    /\ rx[c].next < tail
    /\ tail - rx[c].next <= Slots
    /\ rx' = [d \in Consumers |->
                IF rx[d].alive /\ rx[d].next <= rx[c].next
                THEN [rx[d] EXCEPT !.next = rx[c].next + 1] ELSE rx[d]]
    /\ received' = [received EXCEPT
                      ![c] = Append(@, buffer[rx[c].next - (tail - Len(buffer)) + 1])]
    /\ buffer' = DropFirst(buffer, Len(buffer) - (tail - OldestPos(rx', tail)))
    /\ UNCHANGED << monitorVars, tail, main >>

\* A receive that jumps to the newest value the channel holds.
RecvLatest(c) ==
    /\ Running /\ Schedulable(c)
    /\ rx[c].alive /\ rx[c].pc = "recv"
    /\ rx[c].next < tail
    /\ rx' = [rx EXCEPT ![c].next = tail]
    /\ received' = [received EXCEPT ![c] = Append(@, Last(buffer))]
    /\ buffer' = DropFirst(buffer, Len(buffer) - (tail - OldestPos(rx', tail)))
    /\ UNCHANGED << monitorVars, tail, main >>

\* Receiver::recv in the display loop `while let Ok(u) = rx.recv().await`.
\* More than Slots behind: Err(Lagged), the loop and the task end and the
\* receiver is dropped.  Otherwise the next value is printed.
Recv(c) ==
    /\ Running /\ Schedulable(c)
    /\ rx[c].alive /\ rx[c].pc = "recv"
    /\ rx[c].next < tail
    /\ IF tail - rx[c].next > Slots
       THEN /\ rx' = [rx EXCEPT ![c] = [alive |-> FALSE, next |-> tail - Slots, pc |-> "ended"]]
            /\ received' = received
       ELSE /\ rx' = [rx EXCEPT ![c].next = @ + 1]
            /\ received' = [received EXCEPT
                              ![c] = Append(@, buffer[rx[c].next - (tail - Len(buffer)) + 1])]
    /\ buffer' = DropFirst(buffer, Len(buffer) - (tail - OldestPos(rx', tail)))
    /\ UNCHANGED << monitorVars, tail, main >>

\* The tasks main awaits in select!, and whether each has ended.  The
\* runner tasks are `loop`s without an exit.
Tasks == Venues \cup {"display"}
TaskEnded(t) == IF t \in Venues THEN FALSE ELSE rx[t].pc = "ended" /\ ~rx[t].alive

\* select!: the ctrl_c branch.
CtrlC ==
    /\ Running
    /\ main' = "ctrl_c"
    /\ UNCHANGED << monitorVars, hubVars >>

\* A select! that awaits the runner tasks only.
SelectVenueTasksOnly ==
    /\ Running
    /\ \E t \in Venues : TaskEnded(t)
    /\ main' = "task_ended"
    /\ UNCHANGED << monitorVars, hubVars >>

\* select!: a JoinHandle branch.
SelectTaskEnded ==
    /\ Running
    /\ \E t \in Tasks : TaskEnded(t)
    /\ main' = "task_ended"
    /\ UNCHANGED << monitorVars, hubVars >>

\* ------------------------------------------------------- runner harness
\* start_monitoring is declared to return anyhow::Result<()>, and the runner
\* matches on both arms.  The harness lets the wrapped monitor's run return
\* (as a stub monitor would) so that both arms of the runner are exercised.

Returns(v) == runs[v].ok + runs[v].err

\* The harness lets each monitor's run return MaxReturns times.
MayReturn(v) == Returns(v) < MaxReturns

\* The harness exercises one runner at a time: the other runner tasks have
\* not been scheduled yet.
Solo(v) == \A w \in Venues \ {v} : runs[w].invoked = 0

\* An Ok arm that breaks out of the runner's loop.
ReturnOkLeavesLoop(v) ==
    /\ Running /\ Schedulable(v)
    /\ pc[v] \in {"fetch", "wait"}
    /\ MayReturn(v)
    /\ pc' = [pc EXCEPT ![v] = "ended"]
    /\ runs' = [runs EXCEPT ![v].ok = @ + 1]
    /\ UNCHANGED << price_cache, ticks, emitted, log, hubVars, main >>

\* The Ok arm: print "monitoring ended normally", go round the loop.
ReturnOk(v) ==
    /\ Running /\ Schedulable(v)
    /\ pc[v] \in {"fetch", "wait"}
    /\ MayReturn(v)
    /\ pc' = [pc EXCEPT ![v] = "start"]
    /\ runs' = [runs EXCEPT ![v].ok = @ + 1]
    /\ UNCHANGED << price_cache, ticks, emitted, log, hubVars, main >>

\* An Err arm without the sleep.
ReturnErrNoCooldown(v) ==
    /\ Running /\ Schedulable(v)
    /\ pc[v] \in {"fetch", "wait"}
    /\ MayReturn(v)
    /\ pc' = [pc EXCEPT ![v] = "start"]
    /\ runs' = [runs EXCEPT ![v].err = @ + 1]
    /\ UNCHANGED << price_cache, ticks, emitted, log, hubVars, main >>

\* The Err arm: print the error and start the 5 s sleep.
ReturnErr(v) ==
    /\ Running /\ Schedulable(v)
    /\ pc[v] \in {"fetch", "wait"}
    /\ MayReturn(v)
    /\ pc' = [pc EXCEPT ![v] = "cooldown"]
    /\ runs' = [runs EXCEPT ![v].err = @ + 1]
    /\ UNCHANGED << price_cache, ticks, emitted, log, hubVars, main >>

\* The 5 s sleep is over: print "Reconnecting to ...", go round the loop.
CooldownElapsed(v) ==
    /\ Running /\ Schedulable(v)
    /\ pc[v] = "cooldown"
    /\ pc' = [pc EXCEPT ![v] = "start"]
    /\ runs' = [runs EXCEPT ![v].cooldowns = @ + 1]
    /\ UNCHANGED << price_cache, ticks, emitted, log, hubVars, main >>

Next ==
    \/ \E v \in Venues : Invoke(v)
    \/ \E v \in Venues : IntervalElapsed(v)
    \/ \E v \in Venues : \E in \in Inputs(v) : FetchOk(v, in)
    \/ \E v \in Venues : \E step \in FailureSteps : FetchErr(v, step)
    \/ \E c \in Consumers : Recv(c)
    \/ CtrlC
    \/ SelectTaskEnded

Spec == Init /\ [][Next]_vars

NextRunner ==
    \/ \E v \in Venues : Solo(v) /\ Invoke(v)
    \/ \E v \in Venues : Solo(v) /\ IntervalElapsed(v)
    \/ \E v \in Venues : Solo(v) /\ \E in \in Inputs(v) : FetchOk(v, in)
    \/ \E v \in Venues : Solo(v) /\ \E step \in FailureSteps : FetchErr(v, step)
    \/ \E v \in Venues : Solo(v) /\ ReturnOk(v)
    \/ \E v \in Venues : Solo(v) /\ ReturnErr(v)
    \/ \E v \in Venues : Solo(v) /\ CooldownElapsed(v)
    \/ \E c \in Consumers : Recv(c)
    \/ CtrlC

SpecRunner == Init /\ [][NextRunner]_vars

\* ------------------------------------------------ two-subscriber harness
\* The program as it is, with a second receiver subscribed at startup that
\* runs the same receive loop as the display task (main does not await it).

InitTwoSubscribers == InitWith({"display", "second"})

SpecTwoSubscribers == InitTwoSubscribers /\ [][Next]_vars

\* --------------------------------------------------- one failing venue
\* The program with a venue whose fetch, once it has failed, fails on every
\* later tick, while the other venues' fetches succeed.  Each runner is its
\* own spawned task: the scheduler polls a task that is ready, the interval
\* and sleep timers fire and an RPC call comes back (Ok or Err), so every
\* monitor that can take a step eventually takes one.

Failing(v) == log[v].fetch_errors > 0

FetchOkHealthy(v) == ~Failing(v) /\ \E in \in Inputs(v) : FetchOk(v, in)

FetchErrFailing(v) ==
    /\ \A w \in Venues \ {v} : ~Failing(w)
    /\ \E step \in FailureSteps : FetchErr(v, step)

VenueStep(v) ==
    \/ Invoke(v)
    \/ IntervalElapsed(v)
    \/ FetchOkHealthy(v)
    \/ FetchErrFailing(v)

NextFailing ==
    \/ \E v \in Venues : Invoke(v)
    \/ \E v \in Venues : IntervalElapsed(v)
    \/ \E v \in Venues : FetchOkHealthy(v)
    \/ \E v \in Venues : FetchErrFailing(v)
    \/ \E c \in Consumers : Recv(c)
    \/ CtrlC
    \/ SelectTaskEnded

SpecFailing ==
    /\ Init
    /\ [][NextFailing]_vars
    /\ \A v \in Venues : WF_vars(VenueStep(v))

\* --------------------------------------------------------------- shutdown
\* Spec ends where main's select! returns.  main then prints and returns,
\* and the runtime #[tokio::main] built is dropped: a task suspended at an
\* await is dropped there and never polled again; a task that is running on
\* a thread (an Orca or Meteora monitor inside its fetch) runs on to its
\* next await and is dropped there; then the process exits.

\* The task of venue v is at an await.
Suspended(v) ==
    \/ pc[v] \in {"start", "wait", "cooldown"}
    \/ pc[v] = "fetch" /\ FetchMode(v) = "await"

\* The runtime shuts down every task that is not running.
ShutdownDropSuspended ==
    /\ ~Running
    /\ (\E v \in Venues : Suspended(v)) \/ (\E c \in Consumers : rx[c].pc = "recv")
    /\ pc' = [v \in Venues |-> IF Suspended(v) THEN "dropped" ELSE pc[v]]
    /\ rx' = [c \in Consumers |->
                IF rx[c].pc = "recv"
                THEN [alive |-> FALSE, next |-> rx[c].next, pc |-> "dropped"]
                ELSE rx[c]]
    /\ buffer' = DropFirst(buffer, Len(buffer) - (tail - OldestPos(rx', tail)))
    /\ UNCHANGED << price_cache, ticks, emitted, log, runs, tail, received, main >>

\* A fetch that was running on a thread when main stopped comes back Ok:
\* the tick runs on through the send and the cache update to its next await.
ShutdownFetchOk(v, in) ==
    /\ ~Running
    /\ pc[v] = "fetch" /\ FetchMode(v) # "await"
    /\ ticks[v] < MaxTicks
    /\ Publish(v, PriceUpdateOf(v, in, price_cache[v]))
    /\ ticks' = [ticks EXCEPT ![v] = @ + 1]
    /\ pc' = [pc EXCEPT ![v] = "wait"]
    /\ UNCHANGED << runs, rx, received, main >>

\* The same fetch comes back Err: the error is printed.
ShutdownFetchErr(v, step) ==
    /\ ~Running
    /\ pc[v] = "fetch" /\ FetchMode(v) # "await"
    /\ ticks[v] < MaxTicks
    /\ log' = [log EXCEPT ![v].fetch_errors = @ + 1]
    /\ ticks' = [ticks EXCEPT ![v] = @ + 1]
    /\ pc' = [pc EXCEPT ![v] = "wait"]
    /\ UNCHANGED << price_cache, emitted, runs, hubVars, main >>

NextShutdown ==
    \/ \E v \in Venues : Invoke(v)
    \/ \E v \in Venues : IntervalElapsed(v)
    \/ \E v \in Venues : \E in \in Inputs(v) : FetchOk(v, in)
    \/ \E v \in Venues : \E step \in FailureSteps : FetchErr(v, step)
    \/ \E c \in Consumers : Recv(c)
    \/ CtrlC
    \/ SelectTaskEnded
    \/ ShutdownDropSuspended
    \/ \E v \in Venues : \E in \in Inputs(v) : ShutdownFetchOk(v, in)
    \/ \E v \in Venues : \E step \in FailureSteps : ShutdownFetchErr(v, step)

SpecShutdown == Init /\ [][NextShutdown]_vars

\* ----------------------------------------------------------------- claims

IsPrefix(s, t) == Len(s) <= Len(t) /\ SubSeq(t, 1, Len(s)) = s

FailedSends(v) == Cardinality({ i \in 1..Len(emitted[v]) : emitted[v][i].result = "Err" })

\* change = ((price - prev) / prev) * 100, stated without the model's own
\* arithmetic: cross-multiplied for prev # 0, the IEEE-754 result for prev = 0.
IsChangeFrom(change, price, prev) ==
    IF prev.num # 0
    THEN /\ IsFin(change)
         /\ change.num * price.den * prev.num
              = 100 * (price.num * prev.den - prev.num * price.den) * change.den
    ELSE IF price.num = 0 THEN change = NaN ELSE change = PosInf

C2_FirstChangeIsZero ==
    \A v \in Venues :
        Len(emitted[v]) >= 1 => emitted[v][1].update.change_percent = Zero

\* A venue whose first tick failed emitted its first update, at a price above 0.
C2_Witness ==
    \E v \in Venues :
        /\ log[v].fetch_errors = 1
        /\ Len(emitted[v]) = 1
        /\ emitted[v][1].update.price # Zero
        /\ emitted[v][1].update.change_percent = Zero

\* C3: a tick that fails (its error is printed) emits nothing, sends nothing,
\* leaves the cached price as it was, and the monitor stays in its loop,
\* waiting for the next tick: start_monitoring does not return.
C3_FailedTickSkipped ==
    [][ \A v \in Venues :
          log'[v].fetch_errors > log[v].fetch_errors
            => /\ emitted'[v] = emitted[v]
               /\ price_cache'[v] = price_cache[v]
               /\ buffer' = buffer /\ tail' = tail
               /\ pc'[v] = "wait"
               /\ runs'[v] = runs[v] ]_vars

\* A venue's second tick failed and its cache still holds the first tick's price.
C3_Witness ==
    \E v \in Venues :
        /\ ticks[v] = 2 /\ log[v].fetch_errors = 1
        /\ Len(emitted[v]) = 1
        /\ price_cache[v] = Some(emitted[v][1].update.price)
        /\ pc[v] = "wait"

\* C4 (as claimed): for every venue, each send that failed for want of a
\* subscriber was logged, and the derived price was cached all the same.
C4_FailedSendLoggedEveryVenue ==
    \A v \in Venues :
        /\ log[v].no_receivers = FailedSends(v)
        /\ (emitted[v] # << >> => price_cache[v] = Some(Last(emitted[v]).update.price))

C6_CooldownPerError ==
    \A v \in Venues :
        /\ pc[v] \in {"start", "fetch", "wait", "cooldown"}
        /\ runs[v].cooldowns = runs[v].err - (IF pc[v] = "cooldown" THEN 1 ELSE 0)
        /\ runs[v].invoked
             = runs[v].ok + runs[v].err
                 + (IF pc[v] \in {"fetch", "wait"} THEN 1 ELSE 0)
        /\ (Running /\ pc[v] = "start" => ENABLED Invoke(v))
        /\ (Running /\ pc[v] = "cooldown" => ENABLED CooldownElapsed(v))

\* A runner whose monitor failed MaxReturns times in a row is monitoring again.
C6_Witness ==
    \E v \in Venues :
        /\ runs[v].err = MaxReturns /\ runs[v].ok = 0
        /\ runs[v].cooldowns = MaxReturns
        /\ runs[v].invoked = MaxReturns + 1
        /\ pc[v] \in {"fetch", "wait"}

\* C7 (as claimed): the process stops only on Ctrl-C or once every runner
\* task has ended.
C7_StopOnlyCtrlCOrAllMonitors ==
    main # "select" => (main = "ctrl_c" \/ \A v \in Venues : TaskEnded(v))

\* C7 (amended): only main's select! stops the process, on Ctrl-C or once
\* any one task it awaits has ended; the display task ending its receive
\* loop is such a task, so main can then stop whatever the monitors do.
C7_StopOnlyFromSelect ==
    /\ main \in {"select", "ctrl_c", "task_ended"}
    /\ (main = "task_ended" => \E t \in Tasks : TaskEnded(t))
    /\ (Running /\ (\E t \in Tasks : TaskEnded(t)) => ENABLED SelectTaskEnded)

\* main stopped because the display task ended, with a monitor in mid-fetch.
C7_Witness ==
    /\ main = "task_ended"
    /\ TaskEnded("display")
    /\ \E v \in Venues : pc[v] = "fetch" /\ ticks[v] < MaxTicks

\* The update a venue handed to send in this step, if it did.
Sent(v) == Len(emitted'[v]) = Len(emitted[v]) + 1

\* C8 (as claimed): a send made when Capacity values are pending, or when
\* there is no subscriber, returns an error.
C8_FullOrNoSubscriberFails ==
    [][ \A v \in Venues :
          Sent(v) /\ (Len(buffer) >= Capacity \/ Alive(rx) = {})
            => Last(emitted'[v]).result = "Err" ]_vars

\* C8 (amended): a monitor in its fetch is never kept from publishing by the
\* state of the channel; the send returns an error exactly when there is no
\* subscriber, and then stores nothing; otherwise it returns Ok and stores
\* the value, over the oldest one when every slot is in use.
C8_SendNeverBlocksFailsOnlyWithoutSubscriber ==
    [][ \A v \in Venues :
          /\ Running /\ pc[v] = "fetch" /\ ticks[v] < MaxTicks
                => \A in \in Inputs(v) :
                     \A u \in {PriceUpdate(v, in, price_cache[v])} : ENABLED Tick(v, u)
          /\ Sent(v)
                => LET e == Last(emitted'[v])
                   IN  /\ (e.result = "Err") = (Alive(rx) = {})
                       /\ e.result = "Err" => buffer' = buffer /\ tail' = tail
                       /\ e.result = "Ok"
                            => /\ tail' = tail + 1
                               /\ Last(buffer') = e.update
                               /\ Len(buffer') <= Slots
                               /\ (Len(buffer) = Slots
                                     => buffer' = Append(Tail(buffer), e.update)) ]_vars

\* One send overwrote the oldest value of a full channel and returned Ok,
\* and a later send found no subscriber.
C8_Witness ==
    /\ tail = Slots + 1
    /\ \E v \in Venues : emitted[v] # << >> /\ Last(emitted[v]).result = "Err"
    /\ \E v \in Venues : emitted[v] # << >> /\ Last(emitted[v]).result = "Ok"

\* C9 (as claimed): the channel never retains more than Capacity values.
C9_RetainsAtMostCapacity == Len(buffer) <= Capacity

\* C9 (amended): the channel never retains more values than it has slots,
\* Capacity rounded up to a power of two; what it retains are the latest
\* sends no older than the slowest subscriber's position; and a subscriber
\* more than that many values behind gets the lagged signal on its next
\* receive (which ends its loop) instead of a value.
C9_RetainsAtMostSlots ==
    /\ [](/\ Len(buffer) <= Slots
          /\ Capacity <= Slots /\ Slots < 2 * Capacity
          /\ Len(buffer) = tail - OldestPos(rx, tail)
          /\ \A c \in Consumers : rx[c].alive => rx[c].next <= tail)
    /\ [][ \A c \in Consumers :
             rx[c].alive /\ rx'[c] # rx[c]
               => IF tail - rx[c].next > Slots
                  THEN ~rx'[c].alive /\ rx'[c].pc = "ended" /\ received'[c] = received[c]
                  ELSE rx'[c].alive /\ Len(received'[c]) = Len(received[c]) + 1 ]_vars

\* The display task fell more than Slots values behind and got the lagged
\* signal after having received one value.
C9_Witness ==
    /\ ~rx["display"].alive /\ rx["display"].pc = "ended"
    /\ Len(received["display"]) = 1
    /\ tail = Slots + 2

\* C10: two subscribers subscribed from the start that have not lagged have
\* received the same updates in the same order: what one has received is a
\* prefix of what the other has, each has received exactly the values up to
\* its position, and at equal positions they have received the same.
C10_SameSequence ==
    \A c \in Consumers : \A d \in Consumers :
        rx[c].pc = "recv" /\ rx[d].pc = "recv"
          => /\ IsPrefix(received[c], received[d]) \/ IsPrefix(received[d], received[c])
             /\ Len(received[c]) = rx[c].next
             /\ (rx[c].next = rx[d].next => received[c] = received[d])

\* Both subscribers have received the same four updates, from all three venues.
C10_Witness ==
    /\ rx["display"].pc = "recv" /\ rx["second"].pc = "recv"
    /\ received["display"] = received["second"]
    /\ Len(received["display"]) = 4
    /\ { received["display"][i].source : i \in 1..4 } = Venues

\* The updates of venue v among those a consumer has received, in order.
ReceivedFrom(c, v) == SelectSeq(received[c], LAMBDA u : u.source = Source(v))

\* The updates venue v's sends stored in the channel, in tick order.
Delivered(v) ==
    LET ok == SelectSeq(emitted[v], LAMBDA e : e.result = "Ok")
    IN  [i \in 1..Len(ok) |-> ok[i].update]

\* C11: for each venue, what a subscriber has received from that venue is,
\* in order and without gaps or repeats, the beginning of what the venue's
\* ticks published, however the other venues' sends interleave.
C11_VenueEventsInTickOrder ==
    \A c \in Consumers : \A v \in Venues :
        IsPrefix(ReceivedFrom(c, v), Delivered(v))

\* The display task has received Raydium's two different updates, with the
\* other venues' updates in between.
C11_Witness ==
    /\ Len(received["display"]) = 4
    /\ received["display"][1].source = "Raydium"
    /\ received["display"][4].source = "Raydium"
    /\ received["display"][1].price = Fin(110, 1)
    /\ received["display"][4].price = Fin(100, 1)
    /\ received["display"][2].source # received["display"][3].source

\* C12: a venue whose fetch fails on every tick publishes nothing and does
\* not stop the process (its run does not return, and main stops only on
\* Ctrl-C or because the display task ended); as long as the process runs,
\* the failing venue keeps making its ticks and every other venue goes on
\* to publish on each of its ticks.
C12_FailingVenueIsolated ==
    /\ [][ \A v \in Venues : Failing(v) => emitted'[v] = emitted[v] ]_vars
    /\ [](\A v \in Venues :
            /\ runs[v].ok = 0 /\ runs[v].err = 0
            /\ pc[v] \in {"start", "fetch", "wait"}
            /\ (main = "task_ended" => TaskEnded("display")))
    /\ \A v \in Venues :
          <>(\/ ~Running
             \/ /\ ticks[v] = MaxTicks
                /\ (Failing(v) \/ Len(emitted[v]) = MaxTicks))

\* One venue has failed on every tick and published nothing while the other
\* two have published on every tick, and the process is running.
C12_Witness ==
    /\ Running
    /\ \E f \in Venues :
          /\ log[f].fetch_errors = MaxTicks /\ emitted[f] = << >>
          /\ \A v \in Venues \ {f} : Len(emitted[v]) = MaxTicks

\* Quote reserves at which the reserve ratio is evaluated on its own.
QuoteReserveSamples == {0, 1, 100000000, 110000000, 2000000000}

\* C13: the reserve ratio of a pool whose base_reserve is 0 is exactly 0.0,
\* whatever the quote_reserve, never NaN or an infinity; a Raydium tick that
\* fetched such reserves is not skipped: it can always publish, the update
\* it publishes carries price 0.0, and 0.0 is the price it caches.
C13_ZeroBaseReservePriceZero ==
    /\ \A q \in QuoteReserveSamples : calculate_price(0, q) = Zero
    /\ \A i \in 1..Len(emitted["Raydium"]) :
          LET u == emitted["Raydium"][i].update
          IN  u.base_reserve = 0 => u.price = Zero
    /\ (emitted["Raydium"] # << >> /\ Last(emitted["Raydium"]).update.base_reserve = 0
          => price_cache["Raydium"] = Some(Zero))
    /\ (Running /\ pc["Raydium"] = "fetch" /\ ticks["Raydium"] < MaxTicks
          => \E in \in RaydiumInputs :
                in.base_reserve = 0 /\ ENABLED FetchOk("Raydium", in))

\* Raydium published at price 100 and then, from a pool with base_reserve 0,
\* at price 0.0, which it cached.
C13_Witness ==
    /\ Len(emitted["Raydium"]) = 2
    /\ emitted["Raydium"][1].update.price = Fin(100, 1)
    /\ emitted["Raydium"][2].update.base_reserve = 0
    /\ emitted["Raydium"][2].update.price = Zero
    /\ price_cache["Raydium"] = Some(Zero)

\* C14: in the program as it is, no monitor's run ever returns: whatever
\* fetches failed (account fetch, decode or balance lookup) and whatever
\* sends found no receiver, each runner has invoked run at most once, has
\* seen neither an Ok nor an Err return, has never slept a cooldown, and
\* its monitor is inside its tick loop or not yet started.
C14_RunNeverReturns ==
    \A v \in Venues :
        /\ runs[v].ok = 0 /\ runs[v].err = 0 /\ runs[v].cooldowns = 0
        /\ runs[v].invoked <= 1
        /\ pc[v] \in {"start", "fetch", "wait"}
        /\ (pc[v] \in {"fetch", "wait"}) = (runs[v].invoked = 1)
        /\ ~TaskEnded(v)
        /\ ticks[v] = log[v].fetch_errors + Len(emitted[v])

\* One monitor has failed on every tick, another has published on every
\* tick, and both are still in their first run, back at their wait.
C14_Witness ==
    /\ \E v \in Venues :
          log[v].fetch_errors = MaxTicks /\ runs[v].invoked = 1 /\ pc[v] = "wait"
    /\ \E v \in Venues :
          Len(emitted[v]) = MaxTicks /\ runs[v].invoked = 1 /\ pc[v] = "wait"

\* C15: an Ok return of a monitor's run takes the runner straight back to
\* the top of its loop, without a cooldown and without touching the
\* monitor; from there the runner can always invoke run again, and a runner
\* that has seen Ok returns is in its loop: about to invoke, or in the run.
C15_OkReturnRestarts ==
    /\ [][ \A v \in Venues :
              runs'[v].ok > runs[v].ok
                => /\ pc'[v] = "start"
                   /\ runs'[v].ok = runs[v].ok + 1
                   /\ runs'[v].cooldowns = runs[v].cooldowns
                   /\ runs'[v].err = runs[v].err
                   /\ runs'[v].invoked = runs[v].invoked
                   /\ price_cache'[v] = price_cache[v] ]_vars
    /\ [](\A v \in Venues :
            runs[v].ok > 0
              => /\ pc[v] \in {"start", "fetch", "wait", "cooldown"}
                 /\ (pc[v] = "cooldown" => runs[v].err > 0)
                 /\ (Running /\ pc[v] = "start" => ENABLED Invoke(v)))

\* A runner whose monitor's run returned Ok MaxReturns times, and never Err,
\* has invoked run once more and is monitoring, never having slept.
C15_Witness ==
    \E v \in Venues :
        /\ runs[v].ok = MaxReturns /\ runs[v].err = 0
        /\ runs[v].cooldowns = 0
        /\ runs[v].invoked = MaxReturns + 1
        /\ pc[v] \in {"fetch", "wait"}

\* The next step of venue v's task, if the bound leaves it one, is enabled.
VenueCanStep(v) ==
    /\ Schedulable(v)
    /\ (pc[v] = "start" => ENABLED Invoke(v))
    /\ (pc[v] = "wait" /\ ticks[v] < MaxTicks => ENABLED IntervalElapsed(v))
    /\ (pc[v] = "fetch" /\ ticks[v] < MaxTicks
          => /\ \A in \in Inputs(v) : ENABLED FetchOk(v, in)
             /\ \A step \in FailureSteps : ENABLED FetchErr(v, step))

C17_InFlightTicksFinish ==
    [][ \A v \in Venues :
          pc'[v] = "dropped" /\ pc[v] # "dropped" => pc[v] # "fetch" ]_vars

\* Decimals of the base asset (SOL) and of the quote asset (USDC).
SolDecimals == 9
UsdcDecimals == 6

\* price = (sqrt_price / 2^64)^2 * 10^exp10 for a sqrt_price m * 2^e below
\* 2^64, stated without the model's own arithmetic (cross-multiplied).
IsSqrtPriceScaled(price, sqrt_price, exp10) ==
    LET m2 == sqrt_price.m * sqrt_price.m
        d2 == IntPow(4, Q64Exp - sqrt_price.e)
    IN  /\ IsFin(price)
        /\ IF exp10 >= 0
           THEN price.num * d2 = price.den * m2 * IntPow(10, exp10)
           ELSE price.num * d2 * IntPow(10, -exp10) = price.den * m2

C19_ChangePercentFinite ==
    \A v \in Venues : \A i \in 1..Len(emitted[v]) :
        /\ IsFin(emitted[v][i].update.change_percent)
        /\ (i > 1 => emitted[v][i - 1].update.price # Zero)

=============================================================================
